---- MODULE Spec2Model ----
(***************************************************************************)
(* Model of lambda/handler.py: the function lambda_handler(event, context) *)
(* prints a label and json.dumps(event, indent=2) to standard output and   *)
(* returns {'statusCode': 200, 'body': json.dumps('Success')}.             *)
(*                                                                         *)
(* Python values are tagged records [t |-> type name, v |-> payload].      *)
(* Text is a sequence of one-character strings, so that serialization is   *)
(* a real conversion and its inverse is a real parser.                     *)
(***************************************************************************)
EXTENDS Integers, Sequences, FiniteSets

(***************************************************************************)
(* Bounds of the model.                                                    *)
(***************************************************************************)
\* number of invocations the platform makes (possibly overlapping)
NumInv == 2

Invocations == 1..NumInv

(***************************************************************************)
(* Python values.                                                          *)
(***************************************************************************)
PyNone == [t |-> "None", v |-> <<>>]
PyBool(b) == [t |-> "bool", v |-> b]
PyInt(n) == [t |-> "int", v |-> n]
PyStr(s) == [t |-> "str", v |-> s]
PyList(items) == [t |-> "list", v |-> items]
PyTuple(items) == [t |-> "tuple", v |-> items]
\* a dict is the sequence of its <<key, value>> items in insertion order
PyDict(items) == [t |-> "dict", v |-> items]
\* set(): a value the JSON encoder has no encoding for
PySet == [t |-> "set", v |-> <<>>]

(***************************************************************************)
(* json.dumps(obj, indent=...), as json.encoder does it.  indent = -1      *)
(* stands for indent=None (the default, used for the response body).       *)
(***************************************************************************)
Spaces(n) == [k \in 1..n |-> " "]

\* newline_indent = '\n' + ' ' * (indent * level); absent when indent is None
NewlineIndent(indent, level) ==
  IF indent < 0 THEN <<>> ELSE <<"\n">> \o Spaces(indent * level)

\* item_separator is ',' when indent is given, ', ' otherwise
ItemSeparator(indent) == IF indent < 0 THEN <<",", " ">> ELSE <<",">>

KeySeparator == <<":", " ">>

DigitChar == <<"0", "1", "2", "3", "4", "5", "6", "7", "8", "9">>

RECURSIVE NatToChars(_)
NatToChars(n) ==
  IF n < 10 THEN <<DigitChar[n + 1]>>
  ELSE NatToChars(n \div 10) \o <<DigitChar[(n % 10) + 1]>>

\* int.__repr__
IntToChars(n) == IF n < 0 THEN <<"-">> \o NatToChars(0 - n) ELSE NatToChars(n)

\* variant: the text is put between quotes with no escaping
EscapeCharNone(c) == <<c>>

\* the escapes of json.encoder.ESCAPE_ASCII that the model's alphabet needs
EscapeChar(c) ==
  CASE c = "\"" -> <<"\\", "\"">>
    [] c = "\\" -> <<"\\", "\\">>
    [] c = "\n" -> <<"\\", "n">>
    [] OTHER -> <<c>>

RECURSIVE EscapeFrom(_, _)
EscapeFrom(s, k) ==
  IF k > Len(s) THEN <<>> ELSE EscapeChar(s[k]) \o EscapeFrom(s, k + 1)

\* encode_basestring_ascii: '"' + escaped + '"'
encode_str(s) == <<"\"">> \o EscapeFrom(s, 1) \o <<"\"">>

\* the chunk that stands for a TypeError raised while encoding: it is no
\* character, and a text with it in it is never produced
Raise == <<"TypeError">>

\* variant: only str keys are encoded
key_strStrOnly(k) == IF k.t = "str" THEN encode_str(k.v) ELSE Raise

\* a dict key is coerced to a string and encoded: str as is, int by repr,
\* True/False/None to 'true'/'false'/'null'; any other key type is a TypeError
key_str(k) ==
  CASE k.t = "str" -> encode_str(k.v)
    [] k.t = "int" -> encode_str(IntToChars(k.v))
    [] k.t = "bool" ->
         encode_str(IF k.v THEN <<"t", "r", "u", "e">> ELSE <<"f", "a", "l", "s", "e">>)
    [] k.t = "None" -> encode_str(<<"n", "u", "l", "l">>)
    [] OTHER -> Raise

RECURSIVE iterencode(_, _, _)
RECURSIVE iterencode_list(_, _, _, _)
RECURSIVE iterencode_dict(_, _, _, _)

\* the chunks of the items of a list from index k on, each after its separator
iterencode_list(items, k, indent, level) ==
  IF k > Len(items) THEN <<>>
  ELSE (IF k = 1 THEN <<>> ELSE ItemSeparator(indent))
         \o NewlineIndent(indent, level)
         \o iterencode(items[k], indent, level)
         \o iterencode_list(items, k + 1, indent, level)

\* the chunks of the items of a dict from index k on
iterencode_dict(items, k, indent, level) ==
  IF k > Len(items) THEN <<>>
  ELSE (IF k = 1 THEN <<>> ELSE ItemSeparator(indent))
         \o NewlineIndent(indent, level)
         \o key_str(items[k][1]) \o KeySeparator
         \o iterencode(items[k][2], indent, level)
         \o iterencode_dict(items, k + 1, indent, level)

iterencode(o, indent, level) ==
  CASE o.t = "None" -> <<"n", "u", "l", "l">>
    [] o.t = "bool" -> (IF o.v THEN <<"t", "r", "u", "e">> ELSE <<"f", "a", "l", "s", "e">>)
    [] o.t = "int" -> IntToChars(o.v)
    [] o.t = "str" -> encode_str(o.v)
    [] o.t \in {"list", "tuple"} ->
         IF o.v = <<>> THEN <<"[", "]">>
         ELSE <<"[">> \o iterencode_list(o.v, 1, indent, level + 1)
                \o NewlineIndent(indent, level) \o <<"]">>
    [] o.t = "dict" ->
         IF o.v = <<>> THEN <<"{", "}">>
         ELSE <<"{">> \o iterencode_dict(o.v, 1, indent, level + 1)
                \o NewlineIndent(indent, level) \o <<"}">>
    [] OTHER -> Raise

Ok(txt) == [ok |-> TRUE, text |-> txt]
\* the TypeError leaves json.dumps: no text is produced
Fail == [ok |-> FALSE, text |-> <<>>]

IsRaise(chunk) == chunk = "TypeError"

\* ''.join(chunks), unless the encoder raised
json_dumps(obj, indent) ==
  LET chunks == iterencode(obj, indent, 0)
  IN IF SelectSeq(chunks, IsRaise) # <<>> THEN Fail ELSE Ok(chunks)

(***************************************************************************)
(* The inputs the platform may pass.                                       *)
(***************************************************************************)
\* {}
EvEmpty == PyDict(<<>>)

\* {"R": [{"n": "b\""}, None, True, -12]}
EvRecords ==
  PyDict(<< <<PyStr(<<"R">>),
              PyList(<< PyDict(<< <<PyStr(<<"n">>), PyStr(<<"b", "\"">>)>> >>),
                        PyNone, PyBool(TRUE), PyInt(0 - 12) >>)>> >>)

\* {"a": (1,)}
EvTuple == PyDict(<< <<PyStr(<<"a">>), PyTuple(<<PyInt(1)>>)>> >>)

\* {1: "a", "1": "b"}
EvIntKey ==
  PyDict(<< <<PyInt(1), PyStr(<<"a">>)>>, <<PyStr(<<"1">>), PyStr(<<"b">>)>> >>)

\* {"a": [1, set()]}
EvSet == PyDict(<< <<PyStr(<<"a">>), PyList(<<PyInt(1), PySet>>)>> >>)

\* {(1,): None}
EvTupleKey == PyDict(<< <<PyTuple(<<PyInt(1)>>), PyNone>> >>)

Events == {EvEmpty, EvRecords, EvTuple, EvIntKey, EvSet, EvTupleKey}

\* the context is an opaque token
Contexts == {"ctxA", "ctxB"}

\* placeholder for the arguments of an invocation that has not started
Unbound == [t |-> "unbound", v |-> <<>>]

(***************************************************************************)
(* The handler.                                                            *)
(***************************************************************************)
VARIABLES
  pc,             \* pc[i]: where invocation i stands
  event,          \* event[i]: the object bound to parameter event
  context,        \* context[i]: the object bound to parameter context
  text,           \* text[i]: the value of json.dumps(event, indent=2), until printed
  response,       \* response[i]: <<r>> once the invocation has returned r
  exc,            \* exc[i]: the exception that left the handler, "" if none
  sink,           \* standard output: the sequence of texts written by print
  module_globals  \* the names bound at module level

vars == <<pc, event, context, text, response, exc, sink, module_globals>>

\* 'Received S3 event:'
Label ==
  <<"R", "e", "c", "e", "i", "v", "e", "d", " ", "S", "3", " ",
    "e", "v", "e", "n", "t", ":">>

\* 'Success'
Success == <<"S", "u", "c", "c", "e", "s", "s">>

\* what print(a, b) writes: str(a) + sep + str(b) + end, sep ' ' and end '\n'
print_output(a, b) == a \o <<" ">> \o b \o <<"\n">>

Init ==
  /\ pc = [i \in Invocations |-> "idle"]
  /\ event = [i \in Invocations |-> Unbound]
  /\ context = [i \in Invocations |-> ""]
  /\ text = [i \in Invocations |-> <<>>]
  /\ response = [i \in Invocations |-> <<>>]
  /\ exc = [i \in Invocations |-> ""]
  /\ sink = <<>>
  /\ module_globals = [json |-> "module", boto3 |-> "module", lambda_handler |-> "function"]

\* the platform calls lambda_handler(e, c); invocations are numbered in the
\* order in which they start
Invoke(i) ==
  /\ pc[i] = "idle"
  /\ i > 1 => pc[i - 1] # "idle"
  /\ \E e \in Events, c \in Contexts :
       /\ event' = [event EXCEPT ![i] = e]
       /\ context' = [context EXCEPT ![i] = c]
  /\ pc' = [pc EXCEPT ![i] = "dumps"]
  /\ UNCHANGED <<text, response, exc, sink, module_globals>>

\* variant: the error of the serialization is caught and the handler goes on
DumpsCaught(i) ==
  /\ pc[i] = "dumps"
  /\ LET r == json_dumps(event[i], 2)
     IN IF r.ok
        THEN /\ text' = [text EXCEPT ![i] = r.text]
             /\ pc' = [pc EXCEPT ![i] = "print"]
        ELSE /\ text' = text
             /\ pc' = [pc EXCEPT ![i] = "return"]
  /\ UNCHANGED <<event, context, response, exc, sink, module_globals>>

\* variant: the handler empties the event it was given
DumpsMutating(i) ==
  /\ pc[i] = "dumps"
  /\ LET r == json_dumps(event[i], 2)
     IN IF r.ok
        THEN /\ text' = [text EXCEPT ![i] = r.text]
             /\ pc' = [pc EXCEPT ![i] = "print"]
             /\ exc' = exc
        ELSE /\ exc' = [exc EXCEPT ![i] = "TypeError"]
             /\ pc' = [pc EXCEPT ![i] = "raised"]
             /\ text' = text
  /\ event' = [event EXCEPT ![i] = PyDict(<<>>)]
  /\ UNCHANGED <<context, response, sink, module_globals>>

\* variant: the label is printed on its own before the event is serialized
DumpsLabelFirst(i) ==
  /\ pc[i] = "dumps"
  /\ LET r == json_dumps(event[i], 2)
     IN IF r.ok
        THEN /\ text' = [text EXCEPT ![i] = r.text]
             /\ pc' = [pc EXCEPT ![i] = "print"]
             /\ exc' = exc
             /\ sink' = sink
        ELSE /\ exc' = [exc EXCEPT ![i] = "TypeError"]
             /\ pc' = [pc EXCEPT ![i] = "raised"]
             /\ text' = text
             /\ sink' = Append(sink, Label \o <<"\n">>)
  /\ UNCHANGED <<event, context, response, module_globals>>

\* line 7, the argument json.dumps(event, indent=2) is evaluated first; a
\* TypeError raised by it is not caught and leaves the handler
Dumps(i) ==
  /\ pc[i] = "dumps"
  /\ LET r == json_dumps(event[i], 2)
     IN IF r.ok
        THEN /\ text' = [text EXCEPT ![i] = r.text]
             /\ pc' = [pc EXCEPT ![i] = "print"]
             /\ exc' = exc
        ELSE /\ exc' = [exc EXCEPT ![i] = "TypeError"]
             /\ pc' = [pc EXCEPT ![i] = "raised"]
             /\ text' = text
  /\ UNCHANGED <<event, context, response, sink, module_globals>>

\* variant: the entry is written twice
PrintCallTwice(i) ==
  /\ pc[i] = "print"
  /\ sink' = sink \o <<print_output(Label, text[i]), print_output(Label, text[i])>>
  /\ text' = [text EXCEPT ![i] = <<>>]
  /\ pc' = [pc EXCEPT ![i] = "return"]
  /\ UNCHANGED <<event, context, response, exc, module_globals>>

\* variant: the text to print is kept in one place shared by all invocations
PrintCallShared(i) ==
  /\ pc[i] = "print"
  /\ \E j \in Invocations :
       /\ pc[j] = "print"
       /\ sink' = Append(sink, print_output(Label, text[j]))
  /\ text' = [text EXCEPT ![i] = <<>>]
  /\ pc' = [pc EXCEPT ![i] = "return"]
  /\ UNCHANGED <<event, context, response, exc, module_globals>>

\* variant: the context is printed after the event
PrintCallContext(i) ==
  /\ pc[i] = "print"
  /\ sink' = Append(sink, print_output(Label, text[i] \o <<" ", context[i]>>))
  /\ text' = [text EXCEPT ![i] = <<>>]
  /\ pc' = [pc EXCEPT ![i] = "return"]
  /\ UNCHANGED <<event, context, response, exc, module_globals>>

\* line 7, print("Received S3 event:", <text>)
PrintCall(i) ==
  /\ pc[i] = "print"
  /\ sink' = Append(sink, print_output(Label, text[i]))
  /\ text' = [text EXCEPT ![i] = <<>>]
  /\ pc' = [pc EXCEPT ![i] = "return"]
  /\ UNCHANGED <<event, context, response, exc, module_globals>>

\* variant: the body is the bare string, not its JSON encoding
ReturnUnquoted(i) ==
  /\ pc[i] = "return"
  /\ response' = [response EXCEPT ![i] = << [statusCode |-> 200, body |-> Success] >>]
  /\ pc' = [pc EXCEPT ![i] = "returned"]
  /\ UNCHANGED <<event, context, text, exc, sink, module_globals>>

\* variant: the status code counts the invocations that have returned before
ReturnCounting(i) ==
  /\ pc[i] = "return"
  /\ response' = [response EXCEPT ![i] =
       << [statusCode |-> 200 + Cardinality({j \in Invocations : pc[j] = "returned"}),
           body |-> json_dumps(PyStr(Success), 0 - 1).text] >>]
  /\ pc' = [pc EXCEPT ![i] = "returned"]
  /\ UNCHANGED <<event, context, text, exc, sink, module_globals>>

\* lines 9-12, return {'statusCode': 200, 'body': json.dumps('Success')}
Return(i) ==
  /\ pc[i] = "return"
  /\ response' = [response EXCEPT ![i] =
       << [statusCode |-> 200, body |-> json_dumps(PyStr(Success), 0 - 1).text] >>]
  /\ pc' = [pc EXCEPT ![i] = "returned"]
  /\ UNCHANGED <<event, context, text, exc, sink, module_globals>>

Next ==
  \E i \in Invocations : Invoke(i) \/ Dumps(i) \/ PrintCall(i) \/ Return(i)

Spec == Init /\ [][Next]_vars

\* a step of the handler, in any invocation
Step == \E i \in Invocations : Dumps(i) \/ PrintCall(i) \/ Return(i)

\* the interpreter keeps running the handlers that have been entered
FairSpec == Spec /\ WF_vars(Step)

(***************************************************************************)
(* json.loads(text), as json.decoder and json.scanner do it, and Python's  *)
(* ==: the deserialization and the equality of the round trip.             *)
(***************************************************************************)
\* the character at position i, "" past the end
At(s, i) == IF i \in 1..Len(s) THEN s[i] ELSE ""

WHITESPACE == {" ", "\t", "\n", "\r"}

RECURSIVE skip_ws(_, _)
skip_ws(s, i) == IF At(s, i) \in WHITESPACE THEN skip_ws(s, i + 1) ELSE i

Parsed(val, end) == [ok |-> TRUE, val |-> val, end |-> end]
\* JSONDecodeError
ParseError == [ok |-> FALSE, val |-> PyNone, end |-> 0]

IsDigit(c) == \E d \in 1..10 : DigitChar[d] = c
DigitVal(c) == (CHOOSE d \in 1..10 : DigitChar[d] = c) - 1

\* the digits from position i on, acc the value read so far
RECURSIVE scan_digits(_, _, _)
scan_digits(s, i, acc) ==
  IF IsDigit(At(s, i)) THEN scan_digits(s, i + 1, acc * 10 + DigitVal(s[i]))
  ELSE [val |-> acc, end |-> i]

scan_number(s, i) ==
  LET neg == At(s, i) = "-"
      first == IF neg THEN i + 1 ELSE i
      d == scan_digits(s, first, 0)
  IN IF ~IsDigit(At(s, first)) THEN ParseError
     ELSE Parsed(PyInt(IF neg THEN 0 - d.val ELSE d.val), d.end)

\* py_scanstring: i is the position after the opening quote
RECURSIVE scanstring(_, _, _)
scanstring(s, i, acc) ==
  LET c == At(s, i)
      e == At(s, i + 1)
  IN CASE c = "" -> ParseError
       [] c = "\"" -> Parsed(PyStr(acc), i + 1)
       [] c = "\\" ->
            (CASE e = "\"" -> scanstring(s, i + 2, Append(acc, "\""))
               [] e = "\\" -> scanstring(s, i + 2, Append(acc, "\\"))
               [] e = "n" -> scanstring(s, i + 2, Append(acc, "\n"))
               [] OTHER -> ParseError)
       [] OTHER -> scanstring(s, i + 1, Append(acc, c))

\* whether the characters of word stand at position i
Matches(s, i, word) == \A k \in 1..Len(word) : At(s, i + k - 1) = word[k]

\* dict(pairs): a later pair with a key already present replaces its value
dict_set(items, k, v) ==
  IF \E m \in 1..Len(items) : items[m][1] = k
  THEN [m \in 1..Len(items) |-> IF items[m][1] = k THEN <<k, v>> ELSE items[m]]
  ELSE Append(items, <<k, v>>)

RECURSIVE scan_once(_, _)
RECURSIVE JSONArray(_, _, _)
RECURSIVE JSONObject(_, _, _)

\* the items of an array from position i on, acc the items read so far
JSONArray(s, i, acc) ==
  LET v == scan_once(s, i)
      k == skip_ws(s, v.end)
  IN IF ~v.ok THEN ParseError
     ELSE CASE At(s, k) = "]" -> Parsed(PyList(Append(acc, v.val)), k + 1)
            [] At(s, k) = "," -> JSONArray(s, skip_ws(s, k + 1), Append(acc, v.val))
            [] OTHER -> ParseError

\* the pairs of an object from position i on, acc the pairs read so far
JSONObject(s, i, acc) ==
  LET key == scanstring(s, i + 1, <<>>)
      colon == skip_ws(s, key.end)
      v == scan_once(s, skip_ws(s, colon + 1))
      k == skip_ws(s, v.end)
  IN IF At(s, i) # "\"" \/ ~key.ok \/ At(s, colon) # ":" THEN ParseError
     ELSE IF ~v.ok THEN ParseError
     ELSE CASE At(s, k) = "}" -> Parsed(PyDict(dict_set(acc, key.val, v.val)), k + 1)
            [] At(s, k) = "," ->
                 JSONObject(s, skip_ws(s, k + 1), dict_set(acc, key.val, v.val))
            [] OTHER -> ParseError

scan_once(s, i) ==
  LET c == At(s, i)
  IN CASE c = "\"" -> scanstring(s, i + 1, <<>>)
       [] c = "{" ->
            LET j == skip_ws(s, i + 1)
            IN IF At(s, j) = "}" THEN Parsed(PyDict(<<>>), j + 1)
               ELSE JSONObject(s, j, <<>>)
       [] c = "[" ->
            LET j == skip_ws(s, i + 1)
            IN IF At(s, j) = "]" THEN Parsed(PyList(<<>>), j + 1)
               ELSE JSONArray(s, j, <<>>)
       [] c = "n" /\ Matches(s, i, <<"n", "u", "l", "l">>) -> Parsed(PyNone, i + 4)
       [] c = "t" /\ Matches(s, i, <<"t", "r", "u", "e">>) -> Parsed(PyBool(TRUE), i + 4)
       [] c = "f" /\ Matches(s, i, <<"f", "a", "l", "s", "e">>) -> Parsed(PyBool(FALSE), i + 5)
       [] c = "-" \/ IsDigit(c) -> scan_number(s, i)
       [] OTHER -> ParseError

\* JSONDecoder.decode: one value, then only whitespace
json_loads(s) ==
  LET r == scan_once(s, skip_ws(s, 1))
  IN IF r.ok /\ skip_ws(s, r.end) = Len(s) + 1 THEN r ELSE ParseError

IsNum(a) == a.t \in {"int", "bool"}
NumVal(a) == IF a.t = "bool" THEN (IF a.v THEN 1 ELSE 0) ELSE a.v

\* a == b in Python
RECURSIVE PyEq(_, _)
PyEq(a, b) ==
  IF IsNum(a) /\ IsNum(b) THEN NumVal(a) = NumVal(b)
  ELSE IF a.t # b.t THEN FALSE
  ELSE CASE a.t = "str" -> a.v = b.v
         [] a.t \in {"list", "tuple"} ->
              /\ Len(a.v) = Len(b.v)
              /\ \A k \in 1..Len(a.v) : PyEq(a.v[k], b.v[k])
         [] a.t = "dict" ->
              /\ Len(a.v) = Len(b.v)
              /\ \A k \in 1..Len(a.v) : \E m \in 1..Len(b.v) :
                   PyEq(a.v[k][1], b.v[m][1]) /\ PyEq(a.v[k][2], b.v[m][2])
         [] OTHER -> TRUE

(***************************************************************************)
(* Vocabulary of the properties.                                           *)
(***************************************************************************)
Finished(i) == pc[i] \in {"returned", "raised"}
\* the invocation has executed its print call
Printed(i) == pc[i] \in {"return", "returned"}
AllFinished == \A i \in Invocations : Finished(i)

\* the values the json module documents an encoding for: None, bool, int,
\* str, list, tuple, and dict with str, int, bool or None keys
RECURSIVE Serializable(_)
Serializable(o) ==
  CASE o.t \in {"None", "bool", "int", "str"} -> TRUE
    [] o.t \in {"list", "tuple"} -> \A k \in 1..Len(o.v) : Serializable(o.v[k])
    [] o.t = "dict" ->
         \A k \in 1..Len(o.v) :
           /\ o.v[k][1].t \in {"str", "int", "bool", "None"}
           /\ Serializable(o.v[k][2])
    [] OTHER -> FALSE

\* the values of the JSON data model: null, booleans, integers, strings,
\* arrays and mappings with string keys
RECURSIVE JsonShaped(_)
JsonShaped(o) ==
  CASE o.t \in {"None", "bool", "int", "str"} -> TRUE
    [] o.t = "list" -> \A k \in 1..Len(o.v) : JsonShaped(o.v[k])
    [] o.t = "dict" ->
         \A k \in 1..Len(o.v) : o.v[k][1].t = "str" /\ JsonShaped(o.v[k][2])
    [] OTHER -> FALSE

FixedResponse ==
  [statusCode |-> 200, body |-> <<"\"", "S", "u", "c", "c", "e", "s", "s", "\"">>]

\* the entry an invocation with event e is expected to write
LogLine(e) == Label \o <<" ">> \o json_dumps(e, 2).text \o <<"\n">>

Count(seq, x) == Cardinality({k \in 1..Len(seq) : seq[k] = x})

\* the part of a log entry between the label with its separator and the newline
Payload(entry) == SubSeq(entry, Len(Label) + 2, Len(entry) - 1)

HasLabel(entry) ==
  /\ Len(entry) >= Len(Label) + 2
  /\ SubSeq(entry, 1, Len(Label)) = Label
  /\ entry[Len(Label) + 1] = " "
  /\ entry[Len(entry)] = "\n"

\* the entry that a step of invocation i appends to the sink round-trips to e
RoundTrips(entry, e) ==
  LET r == json_loads(Payload(entry))
  IN HasLabel(entry) /\ r.ok /\ PyEq(r.val, e)

(***************************************************************************)
(* C1: every invocation that returns hands back the record with exactly    *)
(* the fields statusCode and body, statusCode 200 and body the 9           *)
(* characters "Success" with its quotes, whatever the event and context;   *)
(* and an invocation with a serializable event ends in no other way.       *)
(***************************************************************************)
C1_FixedResponse ==
  \A i \in Invocations :
    /\ pc[i] = "returned" =>
         /\ Len(response[i]) = 1
         /\ DOMAIN response[i][1] = {"statusCode", "body"}
         /\ response[i][1].statusCode = 200
         /\ response[i][1].body = <<"\"", "S", "u", "c", "c", "e", "s", "s", "\"">>
         /\ Len(response[i][1].body) = 9
    /\ (Finished(i) /\ Serializable(event[i])) => pc[i] = "returned"

C1_Witness ==
  \E i, j \in Invocations :
    /\ pc[i] = "returned" /\ pc[j] = "returned"
    /\ event[i] = EvEmpty /\ event[j] = EvRecords
    /\ context[i] # context[j]

(***************************************************************************)
(* C2: an invocation whose event cannot be serialized ends with the        *)
(* TypeError leaving the handler, and never has a Response.                *)
(***************************************************************************)
C2_ErrorPropagates ==
  \A i \in Invocations :
    (pc[i] # "idle" /\ ~Serializable(event[i])) =>
      /\ pc[i] \in {"dumps", "raised"}
      /\ response[i] = <<>>
      /\ pc[i] = "raised" => exc[i] = "TypeError"

C2_Witness ==
  \E i \in Invocations :
    pc[i] = "raised" /\ ~Serializable(event[i]) /\ exc[i] = "TypeError"

(***************************************************************************)
(* C3, as claimed: every invocation that has run its course has            *)
(* contributed exactly one entry to the sink.                              *)
(***************************************************************************)
C3_OnePerInvocation ==
  Len(sink) = Cardinality({i \in Invocations : Printed(i) \/ Finished(i)})

(***************************************************************************)
(* C3, amended: every invocation that returns a Response contributes       *)
(* exactly one entry, already in the sink when the Response is handed      *)
(* back; an invocation that fails contributes none.                        *)
(***************************************************************************)
C3_OncePerReturn ==
  /\ \A i \in Invocations :
       Printed(i) =>
         Count(sink, LogLine(event[i])) =
           Cardinality({j \in Invocations : Printed(j) /\ event[j] = event[i]})
  /\ Len(sink) = Cardinality({i \in Invocations : Printed(i)})
  /\ \A i \in Invocations :
       pc[i] = "returned" => \E k \in 1..Len(sink) : sink[k] = LogLine(event[i])

C3_Witness ==
  \E i, j \in Invocations :
    /\ pc[i] = "returned" /\ pc[j] = "raised"
    /\ Len(sink) = 1

(***************************************************************************)
(* C4, as claimed: the entry an invocation writes is the label followed    *)
(* by a text that json.loads turns back into a value equal to its event,   *)
(* for every event the handler accepts.                                    *)
(***************************************************************************)
C4_RoundTripAll ==
  [][\A i \in Invocations :
       (pc[i] = "print" /\ pc'[i] = "return") =>
         /\ Len(sink') = Len(sink) + 1
         /\ RoundTrips(sink'[Len(sink')], event[i])]_vars

(***************************************************************************)
(* C4, amended: the same, for every event made of None, booleans,          *)
(* integers, strings, lists and dicts with string keys only; for any       *)
(* other accepted event the entry still is the label followed by the full  *)
(* serialization.                                                          *)
(***************************************************************************)
C4_RoundTripJson ==
  [][\A i \in Invocations :
       (pc[i] = "print" /\ pc'[i] = "return") =>
         /\ Len(sink') = Len(sink) + 1
         /\ HasLabel(sink'[Len(sink')])
         /\ json_loads(Payload(sink'[Len(sink')])).ok
         /\ JsonShaped(event[i]) => RoundTrips(sink'[Len(sink')], event[i])]_vars

C4_Witness ==
  \E i \in Invocations :
    /\ Printed(i)
    /\ event[i] = EvRecords
    /\ \E k \in 1..Len(sink) : RoundTrips(sink[k], EvRecords)

(***************************************************************************)
(* C5: two invocations with the same event end the same way, with          *)
(* identical Responses, and their log entries are identical, whatever      *)
(* else has happened before or in between.                                 *)
(***************************************************************************)
C5_Idempotent ==
  \A i, j \in Invocations :
    (i # j /\ Finished(i) /\ Finished(j) /\ event[i] = event[j]) =>
      /\ pc[i] = pc[j]
      /\ response[i] = response[j]
      /\ exc[i] = exc[j]
      /\ pc[i] = "returned" =>
           \E k, m \in 1..Len(sink) :
             k # m /\ sink[k] = sink[m] /\ Payload(sink[k]) = json_dumps(event[i], 2).text

C5_Witness ==
  \E i, j \in Invocations :
    /\ i # j
    /\ pc[i] = "returned" /\ pc[j] = "returned"
    /\ event[i] = EvRecords /\ event[j] = EvRecords
    /\ Len(sink) >= 2

(***************************************************************************)
(* C6, as claimed: when N overlapping invocations have all run their       *)
(* course, each one with a serializable event has returned the fixed       *)
(* Response and the sink holds exactly N entries.                          *)
(***************************************************************************)
C6_NEntries ==
  AllFinished =>
    /\ \A i \in Invocations :
         Serializable(event[i]) => response[i] = <<FixedResponse>>
    /\ Len(sink) = NumInv

(***************************************************************************)
(* C6, amended: under every interleaving of the steps of N invocations,    *)
(* each one with a serializable event returns the fixed Response, and the  *)
(* sink ends up with exactly one entry per invocation with a serializable  *)
(* event, carrying the serialization of that invocation's event, and none  *)
(* for the others; a step of one invocation changes nothing that belongs   *)
(* to another, and nothing at module level.                                *)
(***************************************************************************)
C6_ConcurrentSafe ==
  /\ [](AllFinished =>
          /\ \A i \in Invocations :
               IF Serializable(event[i])
               THEN /\ response[i] = <<FixedResponse>>
                    /\ Count(sink, LogLine(event[i])) =
                         Cardinality({j \in Invocations : event[j] = event[i]})
               ELSE response[i] = <<>>
          /\ Len(sink) = Cardinality({i \in Invocations : Serializable(event[i])}))
  /\ [][/\ \A i \in Invocations :
             pc'[i] = pc[i] =>
               /\ event'[i] = event[i] /\ context'[i] = context[i]
               /\ text'[i] = text[i] /\ response'[i] = response[i]
               /\ exc'[i] = exc[i]
        /\ module_globals' = module_globals]_vars

\* both returned, the entries in the sink in the opposite order of the numbering
C6_Witness ==
  /\ AllFinished
  /\ \E i, j \in Invocations :
       /\ i < j
       /\ pc[i] = "returned" /\ pc[j] = "returned"
       /\ event[i] # event[j]
       /\ \E k, m \in 1..Len(sink) :
            k < m /\ sink[k] = LogLine(event[j]) /\ sink[m] = LogLine(event[i])

(***************************************************************************)
(* C7: two invocations with the same event and different contexts end the  *)
(* same way and write the same entry; every entry in the sink is           *)
(* determined by an event alone, and the context is in no Response and in  *)
(* no module-level name.                                                   *)
(***************************************************************************)
C7_ContextIgnored ==
  /\ \A i, j \in Invocations :
       (i # j /\ pc[i] # "idle" /\ pc[j] # "idle"
          /\ event[i] = event[j] /\ context[i] # context[j]) =>
         /\ (Finished(i) /\ Finished(j)) =>
              pc[i] = pc[j] /\ response[i] = response[j] /\ exc[i] = exc[j]
         /\ (Printed(i) /\ Printed(j)) => Count(sink, LogLine(event[i])) >= 2
  /\ \A k \in 1..Len(sink) :
       \E i \in Invocations : Printed(i) /\ sink[k] = LogLine(event[i])
  /\ \A i \in Invocations : response[i] \in {<<>>, <<FixedResponse>>}
  /\ \A n \in DOMAIN module_globals : module_globals[n] \notin Contexts

C7_Witness ==
  \E i, j \in Invocations :
    /\ pc[i] = "returned" /\ pc[j] = "returned"
    /\ event[i] = event[j]
    /\ context[i] = "ctxA" /\ context[j] = "ctxB"

(***************************************************************************)
(* C8: no step changes the event of an invocation that has started, nor    *)
(* any module-level name; once an invocation has run its course, with a    *)
(* Response or with an error, nothing of the handler holds its event or    *)
(* the serialization of it.                                                *)
(***************************************************************************)
C8_EventUntouched ==
  /\ [][/\ \A i \in Invocations : pc[i] # "idle" => event'[i] = event[i]
        /\ module_globals' = module_globals]_vars
  /\ [](\A i \in Invocations : Finished(i) => text[i] = <<>>)

C8_Witness ==
  \E i, j \in Invocations :
    /\ pc[i] = "returned" /\ event[i] = EvRecords
    /\ pc[j] = "raised" /\ event[j] = EvSet

(***************************************************************************)
(* C9: an invocation ends in exactly one of two ways, with the fixed       *)
(* Response or with a TypeError of the serialization; it ends with the     *)
(* error if and only if its event cannot be serialized; and every          *)
(* invocation that has started ends.                                       *)
(***************************************************************************)
C9_TwoOutcomes ==
  /\ [](\A i \in Invocations :
          /\ exc[i] \in {"", "TypeError"}
          /\ pc[i] = "returned" =>
               /\ response[i] = <<FixedResponse>> /\ exc[i] = ""
               /\ Serializable(event[i])
          /\ pc[i] = "raised" =>
               /\ response[i] = <<>> /\ exc[i] = "TypeError"
               /\ ~Serializable(event[i])
          /\ ~Finished(i) => response[i] = <<>> /\ exc[i] = "")
  /\ \A i \in Invocations : (pc[i] = "dumps") ~> Finished(i)

C9_Witness ==
  \E i, j \in Invocations :
    /\ pc[i] = "returned" /\ event[i] = EvIntKey
    /\ pc[j] = "raised" /\ event[j] = EvTupleKey

(***************************************************************************)
(* C10: the step in which the serialization fails writes nothing to the    *)
(* sink; every entry in the sink is the complete line of an invocation     *)
(* whose serialization succeeded; and once no invocation is in progress    *)
(* the sink holds as many entries as invocations have returned a           *)
(* Response.                                                               *)
(***************************************************************************)
C10_NothingOnFailure ==
  /\ [][\A i \in Invocations :
          (pc[i] = "dumps" /\ pc'[i] = "raised") => sink' = sink]_vars
  /\ [](\A k \in 1..Len(sink) :
          \E i \in Invocations :
            /\ pc[i] \in {"return", "returned"}
            /\ json_dumps(event[i], 2).ok
            /\ sink[k] = LogLine(event[i]))
  /\ []((\A i \in Invocations : pc[i] \in {"idle", "returned", "raised"}) =>
          Len(sink) = Cardinality({i \in Invocations : pc[i] = "returned"}))

C10_Witness ==
  \E i, j \in Invocations :
    /\ pc[i] = "raised" /\ event[i] = EvSet
    /\ pc[j] = "returned"
    /\ Len(sink) = 1

====
